---- MODULE Spec2Model ----
(***************************************************************************)
(* The job queue (src/lib/job-queue.ts), the pipeline orchestrator         *)
(* (src/services/pipeline/orchestrator.ts) and the routes that feed them   *)
(* (api/jobs/[jobId]/generate, api/jobs/batch-generate, api/jobs/[jobId]); *)
(* the event broadcaster (src/lib/event-emitter.ts) with its subscribers,  *)
(* the progress streams (api/jobs/[jobId]/progress), and a second          *)
(* publisher, the LinkedIn generator (api/jobs/[jobId]/repurpose/linkedin);*)
(* the image loop of the image stage (src/services/pipeline/images.ts).    *)
(*                                                                         *)
(* One action is one synchronous segment of the Node.js event loop: the    *)
(* code between two awaits runs to completion before anything else does.   *)
(* An awaited Job Store update is two steps: the store applies it (or      *)
(* refuses it, when the row is gone), and later the awaiting code resumes. *)
(* When a pipeline run settles, the continuation of processNext runs in    *)
(* the same microtask drain, so the two form one step.                     *)
(***************************************************************************)
EXTENDS Integers, Sequences, FiniteSets, TLC

\* ---------------------------------------------------------------- bounds
MaxEnqueues == 3   \* enqueueJob calls
MaxRequests == 2   \* HTTP requests: generate, batch-generate, PUT, DELETE
MaxFaults == 1     \* stage functions that throw, brands whose imageDefaults do not parse
MaxStreams == 2    \* progress streams opened
MaxRepurposes == 2 \* LinkedIn repurpose requests accepted
MaxSpecs == 3      \* image specs the image stage works through

Jobs == {1, 2}

\* The statuses a PUT request carries (the body may hold any string).
PutStatuses == {"idle", "completed", "failed"}

\* ------------------------------------------------------------- constants
NumStages == 5

StageStatus ==
  <<"researching", "generating_images", "writing", "generating_meta",
    "generating_thumbnail">>

StartMessage ==
  <<"Starting research...", "Generating article images...", "Writing article...",
    "Generating meta tags...", "Generating thumbnail...">>

CompleteMessage ==
  <<"Research complete", "Images generated", "Article written",
    "Meta tags generated", "Thumbnail generated">>

Statuses ==
  {"idle", "completed", "failed"} \cup {StageStatus[k] : k \in 1..NumStages}

Null == "null"

\* What a stage function, or a refused store update, can throw: an Error
\* carrying a message, or a value that is not an Error.
StageThrowables ==
  { [isError |-> TRUE, message |-> "stage error"],
    [isError |-> FALSE, message |-> ""] }

RecordNotFound == [isError |-> TRUE, message |-> "Record to update not found."]

\* The value of `error` in a run whose catch block has not been entered.
NoException == [isError |-> FALSE, message |-> Null]

\* The columns each stage's result is stored in (metaTitle, metaDescription
\* and urlSlug are written by one update and are one field here).
OutputField ==
  <<"researchBrief", "images", "articleContent", "meta", "thumbnailUrl">>

NoValue == 0

\* The topics a job can be given.
Topics == {1, 2}

\* A ContentJob row as POST /api/jobs creates it: status defaults to idle,
\* every nullable column is null.
NewRow ==
  [exists |-> TRUE, topic |-> 1, status |-> "idle", errorMessage |-> Null,
   researchBrief |-> NoValue, images |-> NoValue, articleContent |-> NoValue,
   meta |-> NoValue, thumbnailUrl |-> NoValue, linkedinPost |-> NoValue]

DeletedRow == [NewRow EXCEPT !.exists = FALSE, !.status = Null]

VARIABLES
  queue,       \* job-queue.ts: const queue: number[]
  processing,  \* job-queue.ts: let processing
  runs,        \* every runContentPipeline call made so far, in call order
  enqueued,    \* the ids passed to enqueueJob, in call order
  uncaught,    \* runs whose rejection escaped processNext
  store,       \* the ContentJob table
  reqs,        \* the generate / batch-generate requests being served
  served,      \* the generate / batch-generate requests answered
  faults,      \* number of faults so far
  nreqs,       \* number of HTTP requests so far
  listeners,   \* event-emitter.ts: the listeners of each channel job:<id>
  streams,     \* every progress stream opened so far, in opening order
  published,   \* every event passed to the emitter so far, in order
  gens,        \* every generateLinkedInPost call made so far
  agent        \* gemini.ts: the agentLoop call of the research stage

vars ==
  <<queue, processing, runs, enqueued, uncaught, store, reqs, served, faults, nreqs,
    listeners, streams, published, gens, agent>>

\* ------------------------------------------------------------ the queue
\* The module state of job-queue.ts together with the runs it has started.
QueueState == [queue |-> queue, processing |-> processing, runs |-> runs,
               enqueued |-> enqueued, uncaught |-> uncaught]

\* runContentPipeline(jobId) up to its first await: the load is issued.
NewRun(jobId, via) ==
  [jobId |-> jobId, pc |-> "load", stage |-> 0, log |-> <<>>, err |-> Null,
   caught |-> NoException, thrownAt |-> 0, via |-> via, stamps |-> <<>>,
   images |-> <<>>, imageOutcomes |-> <<>>, passed |-> <<>>,
   topic |-> NoValue, researchBrief |-> NoValue, articleContent |-> NoValue,
   inputs |-> <<>>]

processNextLifo(qs, via) ==
  IF qs.queue = <<>>
    THEN [qs EXCEPT !.processing = FALSE]
    ELSE [qs EXCEPT !.processing = TRUE,
                    !.queue = SubSeq(@, 1, Len(@) - 1),
                    !.runs = Append(@, NewRun(qs.queue[Len(qs.queue)], via))]

processNext(qs, via) ==
  IF qs.queue = <<>>
    THEN [qs EXCEPT !.processing = FALSE]
    ELSE [qs EXCEPT !.processing = TRUE,
                    !.queue = Tail(@),
                    !.runs = Append(@, NewRun(Head(qs.queue), via))]

enqueueJobUnguarded(qs, jobId) ==
  processNext([qs EXCEPT !.queue = Append(@, jobId),
                         !.enqueued = Append(@, jobId)], "enqueue")

enqueueJobDedup(qs, jobId) ==
  LET seen == \E n \in 1..Len(qs.queue) : qs.queue[n] = jobId
      pushed == [qs EXCEPT !.queue = IF seen THEN @ ELSE Append(@, jobId),
                           !.enqueued = Append(@, jobId)]
  IN IF ~pushed.processing THEN processNext(pushed, "enqueue") ELSE pushed

enqueueJob(qs, jobId) ==
  LET pushed == [qs EXCEPT !.queue = Append(@, jobId),
                           !.enqueued = Append(@, jobId)]
  IN IF ~pushed.processing THEN processNext(pushed, "enqueue") ELSE pushed

RECURSIVE enqueueAll(_, _)
enqueueAll(qs, ids) ==
  IF ids = <<>> THEN qs ELSE enqueueAll(enqueueJob(qs, Head(ids)), Tail(ids))

\* processNext after `await runContentPipeline(jobId)`: run i has settled.
processNextResumeNoCatch(qs, i, outcome) ==
  LET settled == [qs EXCEPT !.runs[i].pc = outcome]
  IN IF outcome = "rejected"
       THEN [settled EXCEPT !.uncaught = @ \cup {i}]
       ELSE processNext(settled, "drain")

processNextResumeKeepBusy(qs, i, outcome) ==
  LET settled == [qs EXCEPT !.runs[i].pc = outcome]
  IN IF settled.queue = <<>> THEN settled ELSE processNext(settled, "drain")

processNextResumeRetry(qs, i, outcome) ==
  LET settled == [qs EXCEPT !.runs[i].pc = outcome]
  IN processNext(IF outcome = "failed"
                   THEN [settled EXCEPT !.queue = Append(@, qs.runs[i].jobId)]
                   ELSE settled, "drain")

processNextResume(qs, i, outcome) ==
  processNext([qs EXCEPT !.runs[i].pc = outcome], "drain")

SetQueueState(qs) ==
  /\ queue' = qs.queue
  /\ processing' = qs.processing
  /\ runs' = qs.runs
  /\ enqueued' = qs.enqueued
  /\ uncaught' = qs.uncaught

InFlight(r) == r.pc \notin {"completed", "failed", "rejected"}

RunIds == 1..Len(runs)

Remove(seq, q) == SubSeq(seq, 1, q - 1) \o SubSeq(seq, q + 1, Len(seq))

\* ------------------------------------------------------- the Job Store
\* prisma.contentJob.update({ where: { id }, data }): throws when no row
\* has that id, else overwrites exactly the columns named in data.
CanUpdate(st, id) == st[id].exists

Update(st, id, data) ==
  LET row == st[id]
  IN [st EXCEPT ![id] =
        [f \in DOMAIN row |-> IF f \in DOMAIN data THEN data[f] ELSE row[f]]]

\* ------------------------------------------------------ the broadcaster
\* jobBroadcaster with the progress streams whose callbacks it holds. The
\* field thrown tells whether the emit call just made threw.
BroadcastState ==
  [listeners |-> listeners, streams |-> streams, published |-> published,
   thrown |-> FALSE]

StreamIds == 1..Len(streams)

\* The JobEvent built by emit; timestamp is a logical clock, the number of
\* the event among all events published.
JobEvent(jobId, status, message, now) ==
  [jobId |-> jobId, status |-> status, message |-> message, timestamp |-> now]

\* The first record of every progress stream.
Connected(jobId) == [status |-> "connected", jobId |-> jobId]

Terminal(event) == event.status \in {"completed", "failed"}

\* What controller.enqueue and controller.close throw on a closed stream.
ControllerClosed ==
  [isError |-> TRUE, message |-> "Invalid state: Controller is already closed"]

\* new ReadableStream({ start }): the connected record is sent. received
\* holds the events the stream's callback was called with; from and upto
\* remember how many events had been published when the callback was
\* subscribed and when it was unsubscribed.
NewStream(jobId) ==
  [jobId |-> jobId, controller |-> "open", sent |-> <<Connected(jobId)>>,
   received |-> <<>>, from |-> 0, upto |-> 0, aborted |-> FALSE, threw |-> FALSE]

IsListener(bs, jobId, s) == \E n \in 1..Len(bs.listeners[jobId]) : bs.listeners[jobId][n] = s

\* emitter.on(channel, callback)
subscribeReplay(bs, jobId, s) ==
  [bs EXCEPT !.listeners[jobId] = Append(@, s),
             !.streams[s].from = Len(bs.published),
             !.streams[s].received = SelectSeq(bs.published, LAMBDA e : e.jobId = jobId),
             !.streams[s].sent = @ \o SelectSeq(bs.published, LAMBDA e : e.jobId = jobId)]

subscribe(bs, jobId, s) ==
  [bs EXCEPT !.listeners[jobId] = Append(@, s),
             !.streams[s].from = Len(bs.published)]

\* emitter.off(channel, callback): removes the callback's most recently
\* added registration, and nothing when it has none.
unsubscribeAll(bs, jobId, s) ==
  [bs EXCEPT !.listeners[jobId] = <<>>, !.streams[s].upto = Len(bs.published)]

unsubscribe(bs, jobId, s) ==
  IF ~IsListener(bs, jobId, s) THEN bs
  ELSE LET ls == bs.listeners[jobId]
           n == CHOOSE n \in 1..Len(ls) :
                  ls[n] = s /\ \A m \in (n + 1)..Len(ls) : ls[m] # s
       IN [bs EXCEPT !.listeners[jobId] = Remove(ls, n),
                     !.streams[s].upto = Len(bs.published)]

\* controller.close()
close(bs, s) ==
  IF bs.streams[s].controller = "open"
    THEN [bs EXCEPT !.streams[s].controller = "closed"]
    ELSE [bs EXCEPT !.streams[s].threw = TRUE]

\* The callback GET /api/jobs/[jobId]/progress subscribes: send the event;
\* on a terminal event unsubscribe and close. controller.enqueue throws on
\* a closed stream, and the exception leaves the callback.
StreamCallbackNoClose(bs, s, event) ==
  IF bs.streams[s].controller # "open"
    THEN [bs EXCEPT !.streams[s].received = Append(@, event),
                    !.streams[s].threw = TRUE, !.thrown = TRUE]
    ELSE [bs EXCEPT !.streams[s].received = Append(@, event),
                    !.streams[s].sent = Append(@, event)]

StreamCallback(bs, s, event) ==
  IF bs.streams[s].controller # "open"
    THEN [bs EXCEPT !.streams[s].received = Append(@, event),
                    !.streams[s].threw = TRUE, !.thrown = TRUE]
    ELSE LET sent == [bs EXCEPT !.streams[s].received = Append(@, event),
                                !.streams[s].sent = Append(@, event)]
         IN IF Terminal(event)
              THEN close(unsubscribe(sent, bs.streams[s].jobId, s), s)
              ELSE sent

\* EventEmitter.emit(channel, event): the listeners registered when the
\* call is made are invoked in registration order; an exception thrown by
\* one of them ends the call and reaches the caller.
RECURSIVE Deliver(_, _, _)
Deliver(bs, ls, event) ==
  IF ls = <<>> THEN bs
  ELSE LET next == StreamCallback(bs, Head(ls), event)
       IN IF next.thrown THEN next ELSE Deliver(next, Tail(ls), event)

\* jobBroadcaster.emit(jobId, status, message)
emitFirstOnly(bs, jobId, status, message) ==
  LET event == JobEvent(jobId, status, message, Len(bs.published) + 1)
      ls == bs.listeners[jobId]
  IN Deliver([bs EXCEPT !.published = Append(@, event), !.thrown = FALSE],
             IF ls = <<>> THEN ls ELSE <<Head(ls)>>, event)

RECURSIVE AllListeners(_, _)
AllListeners(bs, js) ==
  IF js = {} THEN <<>>
  ELSE LET j == CHOOSE j \in js : \A k \in js : j <= k
       IN bs.listeners[j] \o AllListeners(bs, js \ {j})

emitAllChannels(bs, jobId, status, message) ==
  LET event == JobEvent(jobId, status, message, Len(bs.published) + 1)
  IN Deliver([bs EXCEPT !.published = Append(@, event), !.thrown = FALSE],
             AllListeners(bs, Jobs), event)

emitTwice(bs, jobId, status, message) ==
  LET event == JobEvent(jobId, status, message, Len(bs.published) + 1)
      once == Deliver([bs EXCEPT !.published = Append(@, event), !.thrown = FALSE],
                      bs.listeners[jobId], event)
  IN IF once.thrown THEN once ELSE Deliver(once, once.listeners[jobId], event)

emitCaught(bs, jobId, status, message) ==
  LET event == JobEvent(jobId, status, message, Len(bs.published) + 1)
  IN [Deliver([bs EXCEPT !.published = Append(@, event), !.thrown = FALSE],
              bs.listeners[jobId], event) EXCEPT !.thrown = FALSE]

emit(bs, jobId, status, message) ==
  LET event == JobEvent(jobId, status, message, Len(bs.published) + 1)
  IN Deliver([bs EXCEPT !.published = Append(@, event), !.thrown = FALSE],
             bs.listeners[jobId], event)

SetBroadcast(bs) ==
  /\ listeners' = bs.listeners
  /\ streams' = bs.streams
  /\ published' = bs.published

\* GET /api/jobs/[jobId]/progress: the stream starts, sends the connected
\* record and subscribes its callback.
StreamOpen(j) ==
  /\ Len(streams) < MaxStreams
  /\ SetBroadcast(subscribe([BroadcastState EXCEPT !.streams = Append(@, NewStream(j))],
                            j, Len(streams) + 1))
  /\ UNCHANGED <<agent, queue, processing, runs, enqueued, uncaught, store, reqs, served,
                 faults, nreqs, gens>>

\* The client disconnects: the abort listener unsubscribes and closes.
StreamAbort(s) ==
  /\ ~streams[s].aborted
  /\ SetBroadcast(close(unsubscribe([BroadcastState EXCEPT !.streams[s].aborted = TRUE],
                                    streams[s].jobId, s), s))
  /\ UNCHANGED <<agent, queue, processing, runs, enqueued, uncaught, store, reqs, served,
                 faults, nreqs, gens>>

\* The consumer of the response body cancels the stream (the connection
\* went away): the stream is closed, and since the ReadableStream is built
\* without a cancel handler the callback stays subscribed.
StreamCancel(s) ==
  /\ streams[s].controller = "open"
  /\ ~streams[s].aborted
  /\ streams' = [streams EXCEPT ![s].controller = "cancelled"]
  /\ UNCHANGED <<agent, queue, processing, runs, enqueued, uncaught, store, reqs, served,
                 faults, nreqs, listeners, published, gens>>

\* ---------------------------------------------------- the orchestrator
Entry(op, stage, status, message) ==
  [op |-> op, stage |-> stage, status |-> status, message |-> message]

Logged(r, e) == [r EXCEPT !.log = Append(@, e)]

\* jobBroadcaster.emit(jobId, status, message)
Emit(r, stage, status, message) == Logged(r, Entry("emit", stage, status, message))

\* The timestamp of the event the run is publishing.
Stamped(r) == [r EXCEPT !.stamps = Append(@, Len(published) + 1)]

\* The catch block up to its await: the failure update is issued.
CatchSwallow(r, e) ==
  IF r.pc = "stage"
    THEN [r EXCEPT !.pc = "w_out"]
    ELSE [r EXCEPT !.pc = "w_failed", !.caught = e,
                   !.err = IF e.isError THEN e.message ELSE "Unknown error"]

CatchEmitFirst(r, e) ==
  LET message == IF e.isError THEN e.message ELSE "Unknown error"
  IN [Emit(r, 0, "failed", message)
        EXCEPT !.pc = "w_failed", !.caught = e, !.err = message]

CatchRawMessage(r, e) ==
  [r EXCEPT !.pc = "w_failed", !.caught = e, !.err = e.message]

\* catch (error): message is error.message for an Error, else the fallback.
Catch(r, e) ==
  [r EXCEPT !.pc = "w_failed", !.caught = e,
            !.err = IF e.isError THEN e.message ELSE "Unknown error"]

\* The data of the k-th status update and of the k-th output update.
StatusData(k) == "status" :> StageStatus[k]

OutputData(k, value) == OutputField[k] :> value

FailedDataClearing(message) ==
  ("status" :> "failed") @@ ("errorMessage" :> message)
    @@ [f \in {OutputField[k] : k \in 1..NumStages} |-> NoValue]

FailedData(message) == ("status" :> "failed") @@ ("errorMessage" :> message)

\* After a stage's complete event: the next status update is issued.
AfterStageSkip(r) ==
  IF r.stage + 1 < NumStages
    THEN [r EXCEPT !.pc = "w_status", !.stage = @ + 2]
    ELSE [r EXCEPT !.pc = "w_completed"]

AfterStageEarlyDone(r) ==
  IF r.stage < NumStages - 1
    THEN [r EXCEPT !.pc = "w_status", !.stage = @ + 1]
    ELSE [r EXCEPT !.pc = "w_completed"]

AfterStage(r) ==
  IF r.stage < NumStages
    THEN [r EXCEPT !.pc = "w_status", !.stage = @ + 1]
    ELSE [r EXCEPT !.pc = "w_completed"]

\* The try block is entered with the loaded row: the first status update,
\* researching, is issued whatever the row holds.
EnterTryResume(r, row) ==
  LET missing == {k \in 1..NumStages : row[OutputField[k]] = NoValue}
      first == IF missing = {} THEN NumStages
               ELSE CHOOSE k \in missing : \A m \in missing : k <= m
  IN [r EXCEPT !.pc = "w_status", !.stage = first, !.topic = row.topic]

EnterTry(r, row) == [r EXCEPT !.pc = "w_status", !.stage = 1, !.topic = row.topic]

\* The arguments the run passes to the function of the stage it is at:
\* job.topic as loaded, and the constants researchBrief, images and
\* articleContent that earlier stages of the run assigned.
NoInputs ==
  [topic |-> NoValue, researchBrief |-> NoValue, images |-> <<>>,
   articleContent |-> NoValue]

StageInputsFromRow(r, row) ==
  CASE r.stage = 1 -> [NoInputs EXCEPT !.topic = row.topic]
    [] r.stage = 2 -> [NoInputs EXCEPT !.researchBrief = row.researchBrief]
    [] r.stage = 3 -> [NoInputs EXCEPT !.researchBrief = row.researchBrief,
                                       !.images = r.images]
    [] OTHER -> [NoInputs EXCEPT !.articleContent = row.articleContent]

StageInputs(r, row) ==
  CASE r.stage = 1 -> [NoInputs EXCEPT !.topic = r.topic]
    [] r.stage = 2 -> [NoInputs EXCEPT !.researchBrief = r.researchBrief]
    [] r.stage = 3 -> [NoInputs EXCEPT !.researchBrief = r.researchBrief,
                                       !.images = r.images]
    [] OTHER -> [NoInputs EXCEPT !.articleContent = r.articleContent]

\* findUniqueOrThrow resolves, imageDefaults parses: the try block is
\* entered and the first status update is issued.
LoadJobOk(i) ==
  /\ runs[i].pc = "load"
  /\ store[runs[i].jobId].exists
  /\ runs' = [runs EXCEPT ![i] = EnterTry(runs[i], store[runs[i].jobId])]
  /\ UNCHANGED <<agent, queue, processing, enqueued, uncaught, store, reqs, served, faults, nreqs,
               listeners, streams, published, gens>>

LoadJobRejectCaught(i) ==
  /\ runs[i].pc = "load"
  /\ IF store[runs[i].jobId].exists
       THEN faults < MaxFaults /\ faults' = faults + 1
       ELSE faults' = faults
  /\ runs' = [runs EXCEPT ![i] = Catch(@, RecordNotFound)]
  /\ UNCHANGED <<agent, queue, processing, enqueued, uncaught, store, reqs, served, nreqs,
               listeners, streams, published, gens>>

\* findUniqueOrThrow throws (no such row), or JSON.parse(brand.imageDefaults)
\* throws: both happen before the try block, so the run rejects.
LoadJobReject(i) ==
  /\ runs[i].pc = "load"
  /\ IF store[runs[i].jobId].exists
       THEN faults < MaxFaults /\ faults' = faults + 1
       ELSE faults' = faults
  /\ SetQueueState(processNextResume(QueueState, i, "rejected"))
  /\ UNCHANGED <<agent, store, reqs, served, nreqs,
               listeners, streams, published, gens>>

\* The store serves `update({ data: { status: <stage> } })`.
ApplyStatusUpdate(i) ==
  LET r == runs[i] IN
  /\ r.pc = "w_status"
  /\ IF CanUpdate(store, r.jobId)
       THEN /\ store' = Update(store, r.jobId, StatusData(r.stage))
            /\ runs' = [runs EXCEPT ![i] =
                 [Logged(r, Entry("setStatus", r.stage, StageStatus[r.stage], Null))
                    EXCEPT !.pc = "e_start"]]
       ELSE /\ store' = store
            /\ runs' = [runs EXCEPT ![i] = Catch(r, RecordNotFound)]
  /\ UNCHANGED <<agent, queue, processing, enqueued, uncaught, reqs, served, faults, nreqs,
               listeners, streams, published, gens>>

\* The run resumes after the status update: start event, then the stage
\* function is called (writeArticle with the images of the image stage).
ResumeStart(i) ==
  LET r == runs[i]
      bs == emit(BroadcastState, r.jobId, StageStatus[r.stage], StartMessage[r.stage])
      emitted == Stamped(Emit(r, r.stage, StageStatus[r.stage], StartMessage[r.stage]))
  IN
  /\ r.pc = "e_start"
  /\ SetBroadcast(bs)
  /\ runs' = [runs EXCEPT ![i] =
       IF bs.thrown THEN Catch(emitted, ControllerClosed)
       ELSE [Logged(emitted, Entry("invoke", r.stage, Null, Null))
               EXCEPT !.pc = "stage",
                      !.passed = IF r.stage = 3 THEN r.images ELSE @,
                      !.inputs = Append(@, StageInputs(r, store[r.jobId]))]]
  /\ UNCHANGED <<agent, queue, processing, enqueued, uncaught, store, reqs, served, faults, nreqs,
                 gens>>

\* generateArticleImages after the specs are known: generateImage is tried
\* for each spec in turn (outcomes[n]: whether the n-th call returned), an
\* image is pushed for each that returned, a throw is logged and skipped.
RECURSIVE ImageLoop(_, _, _)
ImageLoop(outcomes, n, images) ==
  IF n > Len(outcomes) THEN images
  ELSE ImageLoop(outcomes, n + 1, IF outcomes[n] THEN Append(images, n) ELSE images)

generateArticleImagesRethrow(outcomes) ==
  [threw |-> \E n \in 1..Len(outcomes) : ~outcomes[n],
   images |-> ImageLoop(outcomes, 1, <<>>)]

generateArticleImages(outcomes) ==
  [threw |-> FALSE, images |-> ImageLoop(outcomes, 1, <<>>)]

\* const images = await generateArticleImages(...): the images update is
\* issued, or the catch block entered.
ImagesReturned(r, outcomes) ==
  LET result == generateArticleImages(outcomes)
      met == [r EXCEPT !.imageOutcomes = outcomes]
  IN IF result.threw
       THEN [Catch(met, [isError |-> TRUE, message |-> "stage error"])
               EXCEPT !.thrownAt = r.stage]
       ELSE [met EXCEPT !.pc = "w_out", !.images = result.images]

\* The stage function returns: the output update is issued. (The image
\* stage returns here with every image generated.)
StageReturn(i) ==
  /\ runs[i].pc = "stage"
  /\ runs' = [runs EXCEPT ![i] =
       IF @.stage = 2 THEN ImagesReturned(@, [n \in 1..MaxSpecs |-> TRUE])
       ELSE [@ EXCEPT !.pc = "w_out",
                      !.researchBrief = IF runs[i].stage = 1 THEN i ELSE @,
                      !.articleContent = IF runs[i].stage = 3 THEN i ELSE @]]
  /\ UNCHANGED <<agent, queue, processing, enqueued, uncaught, store, reqs, served, faults, nreqs,
               listeners, streams, published, gens>>

\* The image stage returns after one or more of its generateImage calls
\* threw.
ImagesReturn(i) ==
  /\ runs[i].pc = "stage"
  /\ runs[i].stage = 2
  /\ \E n \in 1..MaxSpecs : \E outcomes \in [1..n -> BOOLEAN] :
       /\ \E k \in 1..n : ~outcomes[k]
       /\ runs' = [runs EXCEPT ![i] = ImagesReturned(@, outcomes)]
  /\ UNCHANGED <<agent, queue, processing, enqueued, uncaught, store, reqs, served, faults, nreqs,
               listeners, streams, published, gens>>

\* The stage function throws.
StageThrow(i) ==
  /\ runs[i].pc = "stage"
  /\ faults < MaxFaults
  /\ faults' = faults + 1
  /\ \E e \in StageThrowables :
       runs' = [runs EXCEPT ![i] = [Catch(runs[i], e) EXCEPT !.thrownAt = runs[i].stage]]
  /\ UNCHANGED <<agent, queue, processing, enqueued, uncaught, store, reqs, served, nreqs,
               listeners, streams, published, gens>>

\* The store serves the update of the stage's output columns.
ApplyOutputUpdate(i) ==
  LET r == runs[i] IN
  /\ r.pc = "w_out"
  /\ IF CanUpdate(store, r.jobId)
       THEN /\ store' = Update(store, r.jobId, OutputData(r.stage, i))
            /\ runs' = [runs EXCEPT ![i] =
                 [Logged(r, Entry("setOutput", r.stage, Null, Null))
                    EXCEPT !.pc = "e_done"]]
       ELSE /\ store' = store
            /\ runs' = [runs EXCEPT ![i] = Catch(r, RecordNotFound)]
  /\ UNCHANGED <<agent, queue, processing, enqueued, uncaught, reqs, served, faults, nreqs,
               listeners, streams, published, gens>>

\* The run resumes after the output update: complete event, then the next
\* status update is issued.
ResumeDone(i) ==
  LET r == runs[i]
      bs == emit(BroadcastState, r.jobId, StageStatus[r.stage], CompleteMessage[r.stage])
      emitted == Stamped(Emit(r, r.stage, StageStatus[r.stage], CompleteMessage[r.stage]))
  IN
  /\ r.pc = "e_done"
  /\ SetBroadcast(bs)
  /\ runs' = [runs EXCEPT ![i] =
       IF bs.thrown THEN Catch(emitted, ControllerClosed) ELSE AfterStage(emitted)]
  /\ UNCHANGED <<agent, queue, processing, enqueued, uncaught, store, reqs, served, faults, nreqs,
                 gens>>

\* The store serves `update({ data: { status: "completed" } })`.
ApplyCompletedUpdate(i) ==
  LET r == runs[i] IN
  /\ r.pc = "w_completed"
  /\ IF CanUpdate(store, r.jobId)
       THEN /\ store' = Update(store, r.jobId, "status" :> "completed")
            /\ runs' = [runs EXCEPT ![i] =
                 [Logged(r, Entry("setStatus", 0, "completed", Null))
                    EXCEPT !.pc = "e_completed"]]
       ELSE /\ store' = store
            /\ runs' = [runs EXCEPT ![i] = Catch(r, RecordNotFound)]
  /\ UNCHANGED <<agent, queue, processing, enqueued, uncaught, reqs, served, faults, nreqs,
               listeners, streams, published, gens>>

\* Completed event, the run resolves, processNext goes on. (An exception
\* thrown by the emit call is still inside the try block.)
ResumeCompleted(i) ==
  LET r == runs[i]
      bs == emit(BroadcastState, r.jobId, "completed", "Pipeline complete")
      emitted == Stamped(Emit(r, 0, "completed", "Pipeline complete"))
      qs == [QueueState EXCEPT !.runs[i] = emitted]
  IN
  /\ r.pc = "e_completed"
  /\ SetBroadcast(bs)
  /\ IF bs.thrown
       THEN /\ runs' = [runs EXCEPT ![i] = Catch(emitted, ControllerClosed)]
            /\ UNCHANGED <<queue, processing, enqueued, uncaught>>
       ELSE SetQueueState(processNextResume(qs, i, "completed"))
  /\ UNCHANGED <<agent, store, reqs, served, faults, nreqs, gens>>

ApplyFailedUpdateIgnore(i) ==
  LET r == runs[i] IN
  /\ r.pc = "w_failed"
  /\ store' = IF CanUpdate(store, r.jobId)
                THEN Update(store, r.jobId, FailedData(r.err)) ELSE store
  /\ runs' = [runs EXCEPT ![i] =
       [(IF CanUpdate(store, r.jobId)
           THEN Logged(r, Entry("setStatus", 0, "failed", r.err)) ELSE r)
          EXCEPT !.pc = "e_failed"]]
  /\ UNCHANGED <<agent, queue, processing, enqueued, uncaught, reqs, served, faults, nreqs,
               listeners, streams, published, gens>>

\* The store serves the failure update; when it refuses it, the exception
\* leaves the catch block and the run rejects.
ApplyFailedUpdate(i) ==
  LET r == runs[i] IN
  /\ r.pc = "w_failed"
  /\ IF CanUpdate(store, r.jobId)
       THEN /\ store' = Update(store, r.jobId, FailedData(r.err))
            /\ runs' = [runs EXCEPT ![i] =
                 [Logged(r, Entry("setStatus", 0, "failed", r.err))
                    EXCEPT !.pc = "e_failed"]]
            /\ UNCHANGED <<queue, processing, enqueued, uncaught>>
       ELSE /\ store' = store
            /\ SetQueueState(processNextResume(QueueState, i, "rejected"))
  /\ UNCHANGED <<agent, reqs, served, faults, nreqs,
               listeners, streams, published, gens>>

\* Failed event, the run resolves, processNext goes on. (An exception
\* thrown by the emit call leaves the catch block: the run rejects.)
ResumeFailed(i) ==
  LET r == runs[i]
      bs == emit(BroadcastState, r.jobId, "failed", r.err)
      qs == [QueueState EXCEPT !.runs[i] = Stamped(Emit(r, 0, "failed", r.err))]
  IN
  /\ r.pc = "e_failed"
  /\ SetBroadcast(bs)
  /\ SetQueueState(processNextResume(qs, i, IF bs.thrown THEN "rejected" ELSE "failed"))
  /\ UNCHANGED <<agent, store, reqs, served, faults, nreqs, gens>>

\* ------------------------------------------------------------ the routes
Request(kind, job, ids, pc, resp) ==
  [kind |-> kind, job |-> job, ids |-> ids, pc |-> pc, resp |-> resp]

ReqIds == 1..Len(reqs)

\* The enqueueJob calls the requests being served will still make.
RECURSIVE Pending(_)
Pending(rs) ==
  IF rs = <<>> THEN 0
  ELSE (IF Head(rs).kind = "batch" THEN Len(Head(rs).ids) ELSE 1) + Pending(Tail(rs))

Admit(n) ==
  /\ nreqs < MaxRequests
  /\ Len(enqueued) + Pending(reqs) + n <= MaxEnqueues

\* POST /api/jobs/[jobId]/generate up to its second await: findUnique has
\* answered; with a row the reset update is issued, without one 404.
GenerateFind(j) ==
  /\ Admit(1)
  /\ IF store[j].exists
       THEN /\ reqs' = Append(reqs, Request("generate", j, <<>>, "reset", 0))
            /\ served' = served
       ELSE /\ served' = served \cup {Request("generate", j, <<>>, "done", 404)}
            /\ reqs' = reqs
  /\ nreqs' = nreqs + 1
  /\ UNCHANGED <<agent, queue, processing, runs, enqueued, uncaught, store, faults,
               listeners, streams, published, gens>>

GenerateResetSkip(q) ==
  /\ reqs[q].pc = "reset"
  /\ reqs' = [reqs EXCEPT ![q].pc = "enqueue"]
  /\ UNCHANGED <<agent, queue, processing, runs, enqueued, uncaught, store, served, faults,
                 nreqs, listeners, streams, published, gens>>

\* The store serves the reset update; a refusal is caught by the route: 500.
GenerateReset(q) ==
  LET r == reqs[q] IN
  /\ r.pc = "reset"
  /\ IF CanUpdate(store, r.job)
       THEN /\ store' = Update(store, r.job,
                   ("status" :> "idle") @@ ("errorMessage" :> Null))
            /\ reqs' = [reqs EXCEPT ![q].pc = "enqueue"]
            /\ served' = served
       ELSE /\ store' = store
            /\ reqs' = Remove(reqs, q)
            /\ served' = served \cup {[r EXCEPT !.pc = "done", !.resp = 500]}
  /\ UNCHANGED <<agent, queue, processing, runs, enqueued, uncaught, faults, nreqs,
               listeners, streams, published, gens>>

\* The route resumes: enqueueJob(id), then the success response.
GenerateEnqueue(q) ==
  LET r == reqs[q] IN
  /\ r.kind = "generate"
  /\ r.pc = "enqueue"
  /\ SetQueueState(enqueueJob(QueueState, r.job))
  /\ reqs' = Remove(reqs, q)
  /\ served' = served \cup {[r EXCEPT !.pc = "done", !.resp = 200, !.ids = <<r.job>>]}
  /\ UNCHANGED <<agent, store, faults, nreqs,
               listeners, streams, published, gens>>

\* findMany({ where: { status: "idle" }, orderBy: { createdAt: "asc" } }):
\* ids are handed out in creation order.
RECURSIVE IdleFromDesc(_, _)
IdleFromDesc(st, j) ==
  IF j \notin Jobs THEN <<>>
  ELSE IdleFromDesc(st, j + 1)
         \o (IF st[j].exists /\ st[j].status = "idle" THEN <<j>> ELSE <<>>)

RECURSIVE IdleFrom(_, _)
IdleFrom(st, j) ==
  IF j \notin Jobs THEN <<>>
  ELSE IF st[j].exists /\ st[j].status = "idle"
    THEN <<j>> \o IdleFrom(st, j + 1)
    ELSE IdleFrom(st, j + 1)

\* POST /api/jobs/batch-generate: findMany answers, the route resumes and
\* enqueues every job of the answer in one synchronous loop.
BatchFind ==
  /\ Admit(Len(IdleFrom(store, 1)))
  /\ reqs' = Append(reqs, Request("batch", 0, IdleFrom(store, 1), "enqueue", 0))
  /\ nreqs' = nreqs + 1
  /\ UNCHANGED <<agent, queue, processing, runs, enqueued, uncaught, store, served, faults,
               listeners, streams, published, gens>>

BatchEnqueue(q) ==
  LET r == reqs[q] IN
  /\ r.kind = "batch"
  /\ r.pc = "enqueue"
  /\ SetQueueState(enqueueAll(QueueState, r.ids))
  /\ reqs' = Remove(reqs, q)
  /\ served' = served \cup {[r EXCEPT !.pc = "done", !.resp = 200]}
  /\ UNCHANGED <<agent, store, faults, nreqs,
               listeners, streams, published, gens>>

\* PUT /api/jobs/[jobId] with a status in the body: the store serves the
\* update (a refusal is answered 500 and changes nothing).
PutStatus(j, s) ==
  /\ nreqs < MaxRequests
  /\ CanUpdate(store, j)
  /\ store' = Update(store, j, "status" :> s)
  /\ nreqs' = nreqs + 1
  /\ UNCHANGED <<agent, queue, processing, runs, enqueued, uncaught, reqs, served, faults,
               listeners, streams, published, gens>>

\* PUT /api/jobs/[jobId] with a topic in the body.
PutTopic(j, t) ==
  /\ nreqs < MaxRequests
  /\ CanUpdate(store, j)
  /\ store' = Update(store, j, "topic" :> t)
  /\ nreqs' = nreqs + 1
  /\ UNCHANGED <<agent, queue, processing, runs, enqueued, uncaught, reqs, served, faults,
               listeners, streams, published, gens>>

\* DELETE /api/jobs/[jobId]
DeleteJob(j) ==
  /\ nreqs < MaxRequests
  /\ store[j].exists
  /\ store' = [store EXCEPT ![j] = DeletedRow]
  /\ nreqs' = nreqs + 1
  /\ UNCHANGED <<agent, queue, processing, runs, enqueued, uncaught, reqs, served, faults,
               listeners, streams, published, gens>>

\* ------------------------------------------------- the LinkedIn generator
GenIds == 1..Len(gens)

\* The catch block of generateLinkedInPost.
GenCatch(bs, jobId) == emit(bs, jobId, "failed", "Failed to generate LinkedIn post")

SetGen(g, bs, pc) ==
  /\ SetBroadcast(IF bs.thrown THEN GenCatch(bs, gens[g].jobId) ELSE bs)
  /\ gens' = [gens EXCEPT ![g].pc = IF bs.thrown THEN "failed" ELSE pc]

\* POST /api/jobs/[jobId]/repurpose/linkedin after findUnique answered: the
\* job is completed and has an article, generateLinkedInPost is called and
\* runs up to its first await. (Anything else is answered 404 or 400.)
RepurposeStart(j) ==
  LET bs == emit(BroadcastState, j, "generating_linkedin", "Generating LinkedIn post...")
  IN
  /\ Len(gens) < MaxRepurposes
  /\ store[j].exists
  /\ store[j].status = "completed"
  /\ store[j].articleContent # NoValue
  /\ SetBroadcast(IF bs.thrown THEN GenCatch(bs, j) ELSE bs)
  /\ gens' = Append(gens, [jobId |-> j, pc |-> IF bs.thrown THEN "failed" ELSE "chat"])
  /\ UNCHANGED <<agent, queue, processing, runs, enqueued, uncaught, store, reqs, served,
                 faults, nreqs>>

\* chatWithClaude returns: the linkedinPost update is issued.
LinkedInReturn(g) ==
  /\ gens[g].pc = "chat"
  /\ gens' = [gens EXCEPT ![g].pc = "w_post"]
  /\ UNCHANGED <<agent, queue, processing, runs, enqueued, uncaught, store, reqs, served,
                 faults, nreqs, listeners, streams, published>>

\* chatWithClaude throws: the catch block publishes failed.
LinkedInThrow(g) ==
  /\ gens[g].pc = "chat"
  /\ faults < MaxFaults
  /\ faults' = faults + 1
  /\ SetBroadcast(GenCatch(BroadcastState, gens[g].jobId))
  /\ gens' = [gens EXCEPT ![g].pc = "failed"]
  /\ UNCHANGED <<agent, queue, processing, runs, enqueued, uncaught, store, reqs, served, nreqs>>

\* The store serves the linkedinPost update; a refusal is caught.
LinkedInApply(g) ==
  /\ gens[g].pc = "w_post"
  /\ IF CanUpdate(store, gens[g].jobId)
       THEN /\ store' = Update(store, gens[g].jobId, "linkedinPost" :> g)
            /\ gens' = [gens EXCEPT ![g].pc = "e_done"]
            /\ UNCHANGED <<listeners, streams, published>>
       ELSE /\ store' = store
            /\ SetBroadcast(GenCatch(BroadcastState, gens[g].jobId))
            /\ gens' = [gens EXCEPT ![g].pc = "failed"]
  /\ UNCHANGED <<agent, queue, processing, runs, enqueued, uncaught, reqs, served, faults, nreqs>>

\* The generator resumes after the update and publishes completed.
LinkedInResume(g) ==
  /\ gens[g].pc = "e_done"
  /\ SetGen(g, emit(BroadcastState, gens[g].jobId, "completed",
                    "LinkedIn post generated successfully"), "done")
  /\ UNCHANGED <<agent, queue, processing, runs, enqueued, uncaught, store, reqs, served,
                 faults, nreqs>>

\* ------------------------------------------------------ the research agent
\* const MAX_ITERATIONS = 10
MAX_ITERATIONS == 10

\* The most function calls one model response carries.
MaxCalls == 2

\* The tools runResearch declares, and the names a response can call.
ToolNames == {"search_google", "scrape_url"}

CallNames == ToolNames \cup {"other_tool"}

\* What generateContent can resolve with: a response without content
\* parts, a response with text only (that parses as JSON or does not), a
\* response with function calls.
Responses ==
  {[kind |-> k, calls |-> <<>>] : k \in {"empty", "json", "prose"}}
    \cup {[kind |-> "calls", calls |-> c] :
            c \in UNION {[1..n -> CallNames] : n \in 1..MaxCalls}}

\* No agentLoop call has been made.
NoAgent ==
  [pc |-> "idle", run |-> 0, i |-> 0, pending |-> <<>>, modelCalls |-> 0,
   toolCalls |-> 0, withCalls |-> 0, text |-> Null, error |-> Null]

\* agentLoop(prompt, tools) up to its first await: the first
\* generateContent call is made, for run r's research stage.
AgentLoopStart(r) == [NoAgent EXCEPT !.pc = "model", !.run = r, !.modelCalls = 1]

AgentThrown(a, message) == [a EXCEPT !.pc = "thrown", !.error = message]

\* The loop over functionCalls from the call at the head of pending: an
\* unknown name throws, a known tool is executed; after the last call the
\* outer loop goes on to its next iteration, or ends and the function
\* throws.
AgentNextCallOneMore(a) ==
  IF a.pending = <<>>
    THEN IF a.i + 1 <= MAX_ITERATIONS
           THEN [a EXCEPT !.i = @ + 1, !.pc = "model", !.modelCalls = @ + 1]
           ELSE AgentThrown([a EXCEPT !.i = @ + 1], "Exceeded maximum iterations")
  ELSE IF Head(a.pending) \notin ToolNames
    THEN AgentThrown(a, "Unknown tool called")
    ELSE [a EXCEPT !.pc = "tool", !.toolCalls = @ + 1]

AgentNextCall(a) ==
  IF a.pending = <<>>
    THEN IF a.i + 1 < MAX_ITERATIONS
           THEN [a EXCEPT !.i = @ + 1, !.pc = "model", !.modelCalls = @ + 1]
           ELSE AgentThrown([a EXCEPT !.i = @ + 1], "Exceeded maximum iterations")
  ELSE IF Head(a.pending) \notin ToolNames
    THEN AgentThrown(a, "Unknown tool called")
    ELSE [a EXCEPT !.pc = "tool", !.toolCalls = @ + 1]

\* generateContent has resolved with resp.
AgentOnResponse(a, resp) ==
  IF resp.kind = "empty" THEN AgentThrown(a, "No content in Gemini response")
  ELSE IF resp.calls = <<>> THEN [a EXCEPT !.pc = "returned", !.text = resp.kind]
  ELSE AgentNextCall([a EXCEPT !.pending = resp.calls, !.withCalls = @ + 1])

\* tool.execute has resolved.
AgentOnToolResult(a) == AgentNextCall([a EXCEPT !.pending = Tail(@)])

\* runResearch after `await agentLoop(prompt, tools)`, and the run that
\* awaits runResearch: a rejection of agentLoop rejects runResearch and
\* enters the run's catch block; the returned text is parsed, and the run
\* issues the brief's update or, when JSON.parse throws, enters catch.
ResearchSettled(r, i, a) ==
  IF a.pc = "thrown"
    THEN [Catch(r, [isError |-> TRUE, message |-> a.error]) EXCEPT !.thrownAt = r.stage]
  ELSE IF a.pc = "returned"
    THEN IF a.text = "json"
           THEN [r EXCEPT !.pc = "w_out", !.researchBrief = i]
           ELSE [Catch(r, [isError |-> TRUE, message |-> "Unexpected token"])
                   EXCEPT !.thrownAt = r.stage]
  ELSE r

SetAgent(a) ==
  /\ agent' = a
  /\ runs' = [runs EXCEPT ![a.run] = ResearchSettled(@, a.run, a)]

\* The research stage of run i has been invoked: runResearch calls
\* agentLoop.
AgentStart(i) ==
  /\ agent.pc = "idle"
  /\ runs[i].pc = "stage"
  /\ runs[i].stage = 1
  /\ agent' = AgentLoopStart(i)
  /\ UNCHANGED <<queue, processing, runs, enqueued, uncaught, store, reqs, served,
                 faults, nreqs, listeners, streams, published, gens>>

AgentModelResponds ==
  /\ agent.pc = "model"
  /\ \E resp \in Responses : SetAgent(AgentOnResponse(agent, resp))
  /\ UNCHANGED <<queue, processing, enqueued, uncaught, store, reqs, served,
                 faults, nreqs, listeners, streams, published, gens>>

AgentToolReturns ==
  /\ agent.pc = "tool"
  /\ SetAgent(AgentOnToolResult(agent))
  /\ UNCHANGED <<queue, processing, enqueued, uncaught, store, reqs, served,
                 faults, nreqs, listeners, streams, published, gens>>

\* generateContent or tool.execute throws: the loop rethrows.
AgentCallThrows ==
  /\ agent.pc \in {"model", "tool"}
  /\ faults < MaxFaults
  /\ faults' = faults + 1
  /\ SetAgent(AgentThrown(agent, "stage error"))
  /\ UNCHANGED <<queue, processing, enqueued, uncaught, store, reqs, served,
                 nreqs, listeners, streams, published, gens>>

\* ---------------------------------------------------------- the system
Init ==
  /\ queue = <<>>
  /\ processing = FALSE
  /\ runs = <<>>
  /\ enqueued = <<>>
  /\ uncaught = {}
  /\ store = [j \in Jobs |-> NewRow]
  /\ reqs = <<>>
  /\ served = {}
  /\ faults = 0
  /\ nreqs = 0
  /\ listeners = [j \in Jobs |-> <<>>]
  /\ streams = <<>>
  /\ published = <<>>
  /\ gens = <<>>
  /\ agent = NoAgent

RunNext ==
  \/ \E i \in RunIds : LoadJobOk(i)
  \/ \E i \in RunIds : LoadJobReject(i)
  \/ \E i \in RunIds : ApplyStatusUpdate(i)
  \/ \E i \in RunIds : ResumeStart(i)
  \/ \E i \in RunIds : StageReturn(i)
  \/ \E i \in RunIds : StageThrow(i)
  \/ \E i \in RunIds : ApplyOutputUpdate(i)
  \/ \E i \in RunIds : ResumeDone(i)
  \/ \E i \in RunIds : ApplyCompletedUpdate(i)
  \/ \E i \in RunIds : ResumeCompleted(i)
  \/ \E i \in RunIds : ApplyFailedUpdate(i)
  \/ \E i \in RunIds : ResumeFailed(i)

StreamNext ==
  \/ \E j \in Jobs : StreamOpen(j)
  \/ \E s \in StreamIds : StreamAbort(s)

RepurposeNext ==
  \/ \E j \in Jobs : RepurposeStart(j)
  \/ \E g \in GenIds : LinkedInReturn(g)
  \/ \E g \in GenIds : LinkedInThrow(g)
  \/ \E g \in GenIds : LinkedInApply(g)
  \/ \E g \in GenIds : LinkedInResume(g)

RouteNext ==
  \/ \E j \in Jobs : GenerateFind(j)
  \/ \E q \in ReqIds : GenerateReset(q)
  \/ \E q \in ReqIds : GenerateEnqueue(q)
  \/ BatchFind
  \/ \E q \in ReqIds : BatchEnqueue(q)

EnvNext ==
  \/ \E j \in Jobs, s \in PutStatuses : PutStatus(j, s)
  \/ \E j \in Jobs : DeleteJob(j)

PipelineNext == RunNext \/ RouteNext

Next == RunNext \/ RouteNext \/ EnvNext

\* Queue, orchestrator and the two routes that enqueue.
SpecPipeline == Init /\ [][PipelineNext]_vars

\* The same with the routes that edit and delete job rows.
Spec == Init /\ [][Next]_vars

\* A row whose job completed in an earlier life of the process.
CompletedRow ==
  [exists |-> TRUE, topic |-> 1, status |-> "completed", errorMessage |-> Null,
   researchBrief |-> -1, images |-> -1, articleContent |-> -1,
   meta |-> -1, thumbnailUrl |-> -1, linkedinPost |-> NoValue]

\* The process has started over a table of completed jobs.
InitBroadcast ==
  /\ queue = <<>>
  /\ processing = FALSE
  /\ runs = <<>>
  /\ enqueued = <<>>
  /\ uncaught = {}
  /\ store = [j \in Jobs |-> CompletedRow]
  /\ reqs = <<>>
  /\ served = {}
  /\ faults = 0
  /\ nreqs = 0
  /\ listeners = [j \in Jobs |-> <<>>]
  /\ streams = <<>>
  /\ published = <<>>
  /\ gens = <<>>
  /\ agent = NoAgent

BroadcastNext == RepurposeNext \/ StreamNext

\* The broadcaster with the LinkedIn generators publishing and the
\* progress streams subscribing.
SpecBroadcast == InitBroadcast /\ [][BroadcastNext]_vars

\* POST /api/jobs/1/generate has been served: the run of job 1 is loading.
InitProgress ==
  LET qs == enqueueJob([queue |-> <<>>, processing |-> FALSE, runs |-> <<>>,
                        enqueued |-> <<>>, uncaught |-> {}], 1)
  IN
  /\ queue = qs.queue
  /\ processing = qs.processing
  /\ runs = qs.runs
  /\ enqueued = qs.enqueued
  /\ uncaught = qs.uncaught
  /\ store = [j \in Jobs |-> NewRow]
  /\ reqs = <<>>
  /\ served = {Request("generate", 1, <<1>>, "done", 200)}
  /\ faults = 0
  /\ nreqs = 1
  /\ listeners = [j \in Jobs |-> <<>>]
  /\ streams = <<>>
  /\ published = <<>>
  /\ gens = <<>>
  /\ agent = NoAgent

ProgressNext == RunNext \/ StreamNext

ImagesNext == RunNext \/ \E i \in RunIds : ImagesReturn(i)

\* One pipeline run whose image stage may lose images.
SpecImages == InitProgress /\ [][ImagesNext]_vars

InputsNext ==
  \/ RunNext
  \/ \E j \in Jobs, t \in Topics : PutTopic(j, t)
  \/ \E j \in Jobs : DeleteJob(j)

\* One pipeline run while the job's topic is edited or the job deleted.
SpecInputs == InitProgress /\ [][InputsNext]_vars

CancelNext == RunNext \/ StreamNext \/ \E s \in StreamIds : StreamCancel(s)

\* One pipeline run publishing to progress streams that are aborted by
\* the client or cancelled by the consumer of the response.
SpecCancel == InitProgress /\ [][CancelNext]_vars

\* The research stage is the agent's call; every other stage returns or
\* throws as before.
AgentBusy == \E i \in RunIds : runs[i].pc = "stage" /\ runs[i].stage = 1

AgentResponds == AgentModelResponds \/ AgentToolReturns

AgentNext ==
  \/ ~AgentBusy /\ RunNext
  \/ \E i \in RunIds : AgentStart(i)
  \/ AgentModelResponds
  \/ AgentToolReturns
  \/ AgentCallThrows

\* One pipeline run whose research stage is the agent loop; every model
\* call and every tool call made is eventually answered.
SpecAgent == InitProgress /\ [][AgentNext]_vars /\ WF_vars(AgentResponds)

\* One pipeline run publishing and progress streams subscribing.
SpecProgress == InitProgress /\ [][ProgressNext]_vars

\* ------------------------------------------------------------ properties
Settled(r) == ~InFlight(r)

Idle == \A i \in RunIds : Settled(runs[i])

\* The job ids of the runs started so far, in start order.
Started == [i \in RunIds |-> runs[i].jobId]

Entries(r, op) == SelectSeq(r.log, LAMBDA e : e.op = op)

StatusSeq(es) == [n \in 1..Len(es) |-> es[n].status]

\* The statuses a run wrote to the Job Store and the statuses it published.
Persisted(r) == StatusSeq(Entries(r, "setStatus"))

Published(r) == StatusSeq(Entries(r, "emit"))

SixStatuses == StageStatus \o <<"completed">>

\* Every stage status twice (start event, complete event), then completed.
StartAndCompletePairs ==
  [n \in 1..(2 * NumStages + 1) |->
     IF n > 2 * NumStages THEN "completed" ELSE StageStatus[(n + 1) \div 2]]

\* C1: at every instant at most one pipeline run is in flight, and a run
\* that is in flight is the one started last: run N+1 starts only after
\* run N has resolved or rejected.
C1_OneRunInFlight ==
  \A i \in RunIds : InFlight(runs[i]) => i = Len(runs)

\* A second and later run is in flight, suspended in a stage call, while
\* another id waits in the buffer.
C1_Witness ==
  /\ Len(runs) >= 2
  /\ runs[Len(runs)].pc = "stage"
  /\ queue # <<>>

\* C2: the ids of the runs started so far are a prefix of the ids passed
\* to enqueueJob, in call order.
C2_StartedIsPrefixOfEnqueued ==
  /\ Len(runs) <= Len(enqueued)
  /\ \A i \in RunIds : runs[i].jobId = enqueued[i]

\* Two ids that waited in the buffer together, for different jobs, have
\* both been started.
C2_Witness ==
  /\ Len(runs) >= 3
  /\ runs[2].jobId # runs[3].jobId
  /\ runs[2].via = "drain"
  /\ runs[3].via = "drain"

\* C3: a rejected run does not stop the drain loop: when it is the last
\* run started, the buffer is empty and the busy flag is reset; otherwise
\* the next buffered id has been started.
C3_RejectionDoesNotStopDrain ==
  \A i \in RunIds :
    (runs[i].pc = "rejected" /\ i = Len(runs)) => (queue = <<>> /\ ~processing)

\* A run rejected and the drain loop started the next buffered id.
C3_Witness ==
  \E i \in RunIds :
    /\ runs[i].pc = "rejected"
    /\ i < Len(runs)
    /\ runs[i + 1].via = "drain"

\* C4 as claimed: a run that succeeded persisted exactly the six statuses
\* and published exactly the six statuses, without repeats.
C4_Original ==
  \A i \in RunIds :
    runs[i].pc = "completed" =>
      /\ Persisted(runs[i]) = SixStatuses
      /\ Published(runs[i]) = SixStatuses

\* C4 amended: a run that succeeded persisted exactly the six statuses, in
\* order; it published each stage status twice in a row (the start event
\* and the complete event of the stage) and then completed once.
C4_StatusOrder ==
  \A i \in RunIds :
    runs[i].pc = "completed" =>
      /\ Persisted(runs[i]) = SixStatuses
      /\ Published(runs[i]) = StartAndCompletePairs

C4_Witness == \E i \in RunIds : runs[i].pc = "completed"

\* C5: when the stage function of stage k throws, no stage after k is
\* invoked in that run, and once the run has settled, the last status it
\* wrote to the job's row (while the row exists) is failed, together with
\* a non-null errorMessage.
C5_FailureShortCircuits ==
  \A i \in RunIds :
    LET r == runs[i]
        written == Entries(r, "setStatus")
    IN r.thrownAt > 0 =>
         /\ \A n \in 1..Len(r.log) :
              r.log[n].op = "invoke" => r.log[n].stage <= r.thrownAt
         /\ (Settled(r) /\ store[r.jobId].exists) =>
              /\ r.pc = "failed"
              /\ written[Len(written)].status = "failed"
              /\ written[Len(written)].message # Null

\* The writing stage threw and the run has settled with the row in place.
C5_Witness ==
  \E i \in RunIds :
    /\ runs[i].thrownAt = 3
    /\ runs[i].pc = "failed"
    /\ store[runs[i].jobId].status = "failed"
    /\ store[runs[i].jobId].errorMessage # Null

\* C6 as claimed: in every Job Store state a job's errorMessage is non-null
\* if and only if its status is failed.
C6_ErrorMessageIffFailed ==
  \A j \in Jobs :
    store[j].exists => (store[j].errorMessage # Null <=> store[j].status = "failed")

\* C7: every event a run publishes directly follows the applied Job Store
\* update of the same transition: a start event the update of that status,
\* a complete event the update of that stage's output, a terminal event
\* the update of the terminal status (and, when failed, of its message).
C7_Matches(w, e) ==
  IF e.stage = 0
    THEN /\ w.op = "setStatus"
         /\ w.status = e.status
         /\ e.status = "failed" => w.message = e.message
    ELSE IF e.message = StartMessage[e.stage]
      THEN w.op = "setStatus" /\ w.stage = e.stage /\ w.status = e.status
      ELSE w.op = "setOutput" /\ w.stage = e.stage

C7_WriteBeforePublish ==
  \A i \in RunIds :
    \A n \in 1..Len(runs[i].log) :
      runs[i].log[n].op = "emit" =>
        /\ n > 1
        /\ C7_Matches(runs[i].log[n - 1], runs[i].log[n])

\* A run has published a start event, a complete event and the failed event.
C7_Witness ==
  \E i \in RunIds :
    /\ runs[i].pc = "failed"
    /\ runs[i].thrownAt >= 2
    /\ Len(Entries(runs[i], "emit")) >= 4

\* C8: when every run started so far has settled, the busy flag is false
\* and the buffer is empty; an enqueueJob call made in that state starts
\* the run of its id within the call.
C8_IdleWhenDrained == Idle => (~processing /\ queue = <<>>)

C8_EnqueueStartsAtOnce ==
  (Idle /\ Len(enqueued') > Len(enqueued)) =>
    /\ Len(runs') = Len(runs) + 1
    /\ runs'[Len(runs')].jobId = enqueued'[Len(enqueued) + 1]
    /\ runs'[Len(runs')].pc = "load"
    /\ processing'

C8_DrainsToIdle == []C8_IdleWhenDrained /\ [][C8_EnqueueStartsAtOnce]_vars

\* A first run has settled, the queue went idle, and a later enqueueJob
\* call started the second run itself.
C8_Witness ==
  /\ Len(runs) >= 2
  /\ Settled(runs[1])
  /\ runs[2].via = "enqueue"

\* C9: every id passed to enqueueJob is either started, exactly once, or
\* still buffered, in call order; an id waits in the buffer only while a
\* run is in flight; once every run has terminated the runs are exactly
\* the enqueued ids, so an id enqueued k times is run k times.
C9_NoDropNoDuplicate ==
  /\ enqueued = Started \o queue
  /\ queue # <<>> => InFlight(runs[Len(runs)])
  /\ Idle => Started = enqueued

\* The same id was enqueued twice and both of its runs have terminated.
C9_Witness ==
  /\ Len(runs) >= 2
  /\ runs[1].jobId = runs[2].jobId
  /\ Settled(runs[1])
  /\ Settled(runs[2])
  /\ Len(enqueued) = 2

\* C10: no rejection of a run escapes the queue, and every request that
\* called enqueueJob has answered success, whatever became of the run.
C10_FireAndForget ==
  /\ uncaught = {}
  /\ \A r \in served : r.ids # <<>> => r.resp = 200

\* A run rejected, and the request that enqueued it was answered with
\* success.
C10_Witness ==
  \E i \in RunIds :
    /\ runs[i].pc = "rejected"
    /\ \E r \in served :
         r.resp = 200 /\ \E n \in 1..Len(r.ids) : r.ids[n] = runs[i].jobId

\* C11: a run that caught an exception writes status failed and the
\* errorMessage in one update, so no row is ever failed with a null
\* errorMessage; the message is the caught Error's message, or "Unknown
\* error" when the caught value is not an Error; the failed event follows
\* that update directly and carries the same message.
C11_Message(e) == IF e.isError THEN e.message ELSE "Unknown error"

C11_FailedWithMessage ==
  /\ \A j \in Jobs : store[j].status = "failed" => store[j].errorMessage # Null
  /\ \A i \in RunIds :
       LET r == runs[i]
           n == Len(r.log)
       IN /\ r.pc \in {"e_failed", "failed"} =>
               \E k \in {n - 1, n} :
                 /\ k >= 1
                 /\ r.log[k] = Entry("setStatus", 0, "failed", C11_Message(r.caught))
                 /\ k = n <=> r.pc = "e_failed"
          /\ r.pc = "failed" =>
               r.log[n] = Entry("emit", 0, "failed", C11_Message(r.caught))

\* A run failed on a value that is not an Error: the row and the failed
\* event both carry the fallback message.
C11_Witness ==
  \E i \in RunIds :
    /\ runs[i].pc = "failed"
    /\ ~runs[i].caught.isError
    /\ store[runs[i].jobId].status = "failed"
    /\ store[runs[i].jobId].errorMessage = "Unknown error"

\* C12: a run starts at the research stage whatever the job's row holds:
\* the first update it issues is status researching, the stages it invokes
\* are 1, 2, 3, ... without a gap, and a run that completed invoked all
\* five, also when an earlier run of the same job had failed or completed
\* and left its outputs in the row.
C12_Invoked(r) == [n \in 1..Len(Entries(r, "invoke")) |-> Entries(r, "invoke")[n].stage]

C12_StartsAtResearch ==
  \A i \in RunIds :
    LET r == runs[i] IN
    /\ (r.pc = "w_status" /\ r.log = <<>>) => r.stage = 1
    /\ r.log # <<>> => r.log[1] = Entry("setStatus", 1, "researching", Null)
    /\ C12_Invoked(r) = [n \in 1..Len(C12_Invoked(r)) |-> n]
    /\ r.pc = "completed" => Len(C12_Invoked(r)) = NumStages

\* The first run of a job failed after storing its research brief; the
\* job was enqueued again and its second run went through all five stages.
C12_Witness ==
  \E i, k \in RunIds :
    /\ i < k
    /\ runs[i].jobId = runs[k].jobId
    /\ runs[i].pc = "failed"
    /\ runs[i].thrownAt >= 2
    /\ runs[k].pc = "completed"
    /\ Len(C12_Invoked(runs[k])) = NumStages
    /\ store[runs[k].jobId].researchBrief = k

\* C13: while a run stays suspended in a stage call, it keeps the active
\* slot: in every step that leaves it there the busy flag stays set, no
\* run is started, and the buffered ids stay buffered in order (enqueues
\* only append); the run leaves the stage call only by the stage function
\* returning or throwing.
C13_Step ==
  \A i \in RunIds :
    runs[i].pc = "stage" =>
      /\ i <= Len(runs')
      /\ runs'[i].pc \in {"stage", "w_out", "w_failed"}
      /\ runs'[i].pc = "stage" =>
           /\ processing /\ processing'
           /\ Len(runs') = Len(runs)
           /\ Len(queue') >= Len(queue)
           /\ SubSeq(queue', 1, Len(queue)) = queue

C13_HungRunKeepsSlot == [][C13_Step]_vars

\* The first run is suspended in its research stage and two ids wait
\* behind it.
C13_Witness ==
  /\ Len(runs) = 1
  /\ runs[1].pc = "stage"
  /\ runs[1].stage = 1
  /\ Len(queue) = 2

\* ------------------------------------------- properties of the broadcaster
Subscribed(s) == IsListener(BroadcastState, streams[s].jobId, s)

\* The events published for job j after the first a and up to the b-th.
PublishedFor(j, a, b) == SelectSeq(SubSeq(published, a + 1, b), LAMBDA e : e.jobId = j)

\* C14: the step in which an event is published calls every callback
\* subscribed to the event's job at that moment exactly once with that
\* event, and calls no other callback; with no subscriber the step changes
\* nothing but the record of published events.
C14_Step ==
  Len(published') > Len(published) =>
    LET event == published'[Len(published) + 1] IN
    /\ \A s \in StreamIds :
         streams'[s].received =
           IF IsListener(BroadcastState, event.jobId, s)
             THEN Append(streams[s].received, event)
             ELSE streams[s].received
    /\ listeners[event.jobId] = <<>> => (streams' = streams /\ listeners' = listeners)

C15_NoCrossDelivery ==
  \A s \in StreamIds :
    \A n \in 1..Len(streams[s].received) :
      streams[s].received[n].jobId = streams[s].jobId

\* Events of job a, then of job b, then of job a again were published
\* while callbacks were subscribed to each of the two jobs and were called.
C15_Witness ==
  /\ \E a, b, c \in 1..Len(published) :
       /\ a < b /\ b < c
       /\ published[a].jobId = published[c].jobId
       /\ published[a].jobId # published[b].jobId
  /\ \E s, t \in StreamIds :
       /\ streams[s].jobId # streams[t].jobId
       /\ streams[s].received # <<>>
       /\ streams[t].received # <<>>

\* C16: a callback is only called with events published after it was
\* subscribed: no event published before is replayed to it.
C16_NoReplay ==
  \A s \in StreamIds :
    \A n \in 1..Len(streams[s].received) :
      streams[s].received[n].timestamp > streams[s].from

\* A callback subscribed after an event of its job had been published,
\* and has since been called with a later event.
C16_Witness ==
  \E s \in StreamIds :
    /\ PublishedFor(streams[s].jobId, 0, streams[s].from) # <<>>
    /\ streams[s].received # <<>>

\* C17: once the unsubscribe function of a callback has been called (by
\* the abort listener or on a terminal event) the callback is no longer
\* subscribed and is called with no event published later; a callback
\* that is still subscribed has been called with every event published
\* for its job since it subscribed, whoever else unsubscribed meanwhile.
C17_Unsubscribed(s) ==
  \/ streams[s].aborted
  \/ \E n \in 1..Len(streams[s].received) : Terminal(streams[s].received[n])

C18_OfRun(r, es) ==
  SelectSeq(es, LAMBDA e : \E n \in 1..Len(r.stamps) : r.stamps[n] = e.timestamp)

C18_AsPublished(r) ==
  [n \in 1..Len(r.stamps) |->
     JobEvent(r.jobId, Entries(r, "emit")[n].status, Entries(r, "emit")[n].message,
              r.stamps[n])]

C19_Events(s) == Tail(streams[s].sent)

C20_Partial(outcomes) ==
  /\ \E n \in 1..Len(outcomes) : outcomes[n]
  /\ \E n \in 1..Len(outcomes) : ~outcomes[n]

C20_Generated(outcomes) ==
  LET ok == {n \in 1..Len(outcomes) : outcomes[n]}
  IN CHOOSE seq \in [1..Cardinality(ok) -> ok] :
       \A a, b \in 1..Cardinality(ok) : a < b => seq[a] < seq[b]

C20_PartialImagesProceed ==
  \A i \in RunIds :
    LET r == runs[i] IN
    C20_Partial(r.imageOutcomes) =>
      /\ r.images = C20_Generated(r.imageOutcomes)
      /\ r.thrownAt # 2
      /\ r.stage >= 2
      /\ ~(r.stage = 2 /\ r.pc \in {"w_failed", "e_failed", "stage"})
      /\ r.pc \in {"w_failed", "e_failed", "failed"} => r.thrownAt > 2
      /\ (\E n \in 1..Len(r.log) : r.log[n] = Entry("invoke", 3, Null, Null)) =>
           r.passed = C20_Generated(r.imageOutcomes)

\* The second of three images failed; the run called the writing stage
\* with the first and the third and went on to complete.
C20_Witness ==
  \E i \in RunIds :
    /\ runs[i].imageOutcomes = <<TRUE, FALSE, TRUE>>
    /\ runs[i].images = <<1, 3>>
    /\ runs[i].passed = <<1, 3>>
    /\ runs[i].pc = "completed"

\* C21 as claimed: an enqueueJob call for a job that has a run in flight
\* starts a second run of that job while the first is still in flight.
C21_OriginalStep ==
  \A i \in RunIds :
    (/\ InFlight(runs[i])
     /\ Len(enqueued') > Len(enqueued)
     /\ enqueued'[Len(enqueued) + 1] = runs[i].jobId)
    => \E k \in 1..Len(runs') :
         /\ k # i
         /\ runs'[k].jobId = runs[i].jobId
         /\ InFlight(runs'[k])
         /\ InFlight(runs'[i])

C21_Original == [][C21_OriginalStep]_vars

\* C21 amended: two runs of the same job are never in flight together. An
\* id enqueued while a run of its job is in flight is buffered; its run
\* starts only after every earlier run has settled, so the runs of one
\* job write its row one after the other.
C21_DuplicateIdRunsInTurn ==
  \A a, b \in RunIds :
    (a < b /\ runs[a].jobId = runs[b].jobId) =>
      /\ ~(InFlight(runs[a]) /\ InFlight(runs[b]))
      /\ runs[b].log # <<>> => Settled(runs[a])

\* The same id was enqueued twice while its first run was in flight: the
\* first run has settled after writing the row, and the second, started
\* by the drain loop, is now in a stage call.
C21_Witness ==
  /\ Len(runs) >= 2
  /\ runs[1].jobId = runs[2].jobId
  /\ runs[2].via = "drain"
  /\ Settled(runs[1])
  /\ Entries(runs[1], "setStatus") # <<>>
  /\ runs[2].pc = "stage"

\* C22 as claimed: in every step that changes the row of a job while a
\* run of that job is in flight, the change is a write of that run.
C22_Step ==
  \A i \in RunIds :
    (InFlight(runs[i]) /\ store'[runs[i].jobId] # store[runs[i].jobId]) =>
      /\ Len(runs') >= i
      /\ Len(runs'[i].log) = Len(runs[i].log) + 1
      /\ runs'[i].log[Len(runs'[i].log)].op \in {"setStatus", "setOutput"}

C22_OnlyTheRunWritesItsRow == [][C22_Step]_vars

\* C23: the actions of a run occur in this order, stage by stage: write
\* status = stage name, publish the start event with that status, invoke
\* the stage function, write the stage's outputs, publish the complete
\* event; the next stage's status write comes after the previous stage's
\* complete event, and after the fifth stage the completed status and the
\* completed event. What a run did before it failed or settled is a
\* prefix of that sequence.
C23_StageEntry(k, m) ==
  CASE m = 0 -> Entry("setStatus", k, StageStatus[k], Null)
    [] m = 1 -> Entry("emit", k, StageStatus[k], StartMessage[k])
    [] m = 2 -> Entry("invoke", k, Null, Null)
    [] m = 3 -> Entry("setOutput", k, Null, Null)
    [] m = 4 -> Entry("emit", k, StageStatus[k], CompleteMessage[k])

C23_ExpectedLog ==
  [n \in 1..(5 * NumStages) |-> C23_StageEntry((n - 1) \div 5 + 1, (n - 1) % 5)]
    \o << Entry("setStatus", 0, "completed", Null),
          Entry("emit", 0, "completed", "Pipeline complete") >>

C23_BeforeFailure(r) == SelectSeq(r.log, LAMBDA e : e.status # "failed")

C23_StageActionsInOrder ==
  \A i \in RunIds :
    LET done == C23_BeforeFailure(runs[i]) IN
    /\ Len(done) <= Len(C23_ExpectedLog)
    /\ done = SubSeq(C23_ExpectedLog, 1, Len(done))
    /\ runs[i].pc = "completed" => runs[i].log = C23_ExpectedLog

\* One run went through all five stages to the completed event; another
\* stopped in the middle of a stage.
C23_Witness ==
  /\ \E i \in RunIds : runs[i].pc = "completed" /\ Len(runs[i].log) = 5 * NumStages + 2
  /\ \E i \in RunIds : runs[i].pc = "failed" /\ runs[i].thrownAt >= 2

\* C24: within a run no stage function is invoked twice; stage k + 1 is
\* invoked only after the outputs returned by stage k were stored, so at
\* most one stage call is pending; and a run is started only for an id
\* passed to enqueueJob: a failed run is not started again, the runs and
\* the buffered ids together are as many as the enqueueJob calls.
C24_StagesOnceAndNoRetry ==
  /\ \A i \in RunIds :
       LET log == runs[i].log IN
       /\ \A a, b \in 1..Len(log) :
            (a < b /\ log[a].op = "invoke" /\ log[b].op = "invoke") =>
              /\ log[b].stage > log[a].stage
              /\ \E c \in (a + 1)..(b - 1) :
                   log[c] = Entry("setOutput", log[a].stage, Null, Null)
       /\ runs[i].pc = "stage" =>
            /\ log[Len(log)] = Entry("invoke", runs[i].stage, Null, Null)
            /\ Len(Entries(runs[i], "invoke")) = Len(Entries(runs[i], "setOutput")) + 1
  /\ Len(runs) + Len(queue) = Len(enqueued)
  /\ Idle => Len(runs) = Len(enqueued)

\* A run failed in its writing stage; the queue has drained and gone idle
\* with one run per enqueueJob call, and the job is still failed.
C24_Witness ==
  /\ Idle
  /\ \E i \in RunIds :
       /\ runs[i].pc = "failed"
       /\ runs[i].thrownAt = 3
       /\ store[runs[i].jobId].status = "failed"
  /\ Len(runs) = Len(enqueued)
  /\ ~processing

\* C25: a run writes status completed only after each of the five stages
\* was invoked and its outputs were stored; the completed event directly
\* follows that write and is the last thing the run does: once the run
\* has resolved, it writes and publishes nothing more.
C25_CompletedLast ==
  \A i \in RunIds :
    LET log == runs[i].log IN
    \A n \in 1..Len(log) :
      /\ log[n] = Entry("setStatus", 0, "completed", Null) =>
           /\ \A k \in 1..NumStages : \E a, b \in 1..(n - 1) :
                /\ a < b
                /\ log[a] = Entry("invoke", k, Null, Null)
                /\ log[b] = Entry("setOutput", k, Null, Null)
           /\ n < Len(log) =>
                /\ n + 1 = Len(log)
                /\ log[n + 1] = Entry("emit", 0, "completed", "Pipeline complete")
      /\ log[n].op = "emit" /\ log[n].status = "completed" =>
           /\ n = Len(log)
           /\ n > 1
           /\ log[n - 1] = Entry("setStatus", 0, "completed", Null)
           /\ runs[i].pc = "completed"

C25_ResolvedRunIsSilent ==
  \A i \in RunIds : runs[i].pc = "completed" => runs'[i] = runs[i]

C26_CaughtInOrchestrator ==
  \A i \in RunIds :
    LET r == runs[i]
    IN r.thrownAt > 0 =>
         /\ r.caught \in StageThrowables
         /\ r.pc \in {"w_failed", "e_failed", "failed", "rejected"}
         /\ Len(Entries(r, "setStatus")) <= r.thrownAt + 1
         /\ \A n \in 1..Len(r.log) :
              (r.log[n].op = "setStatus" /\ r.log[n].status = "failed") => n >= Len(r.log) - 1
         /\ i \notin uncaught

C26_RejectsOnlyInCatch ==
  \A i \in RunIds :
    (i \in DOMAIN runs' /\ runs[i].thrownAt > 0 /\ InFlight(runs[i])) =>
      /\ runs'[i].pc = "rejected" =>
           \/ runs[i].pc = "w_failed" /\ ~CanUpdate(store, runs[i].jobId)
           \/ /\ runs[i].pc = "e_failed"
              /\ emit(BroadcastState, runs[i].jobId, "failed", runs[i].err).thrown
      /\ (runs[i].pc = "e_failed" /\ runs'[i].pc # "e_failed"
            /\ ~emit(BroadcastState, runs[i].jobId, "failed", runs[i].err).thrown) =>
           runs'[i].pc = "failed"

C27_AllImagesFailedFails ==
  \A i \in RunIds :
    LET r == runs[i] IN
    (r.imageOutcomes # <<>> /\ \A n \in 1..Len(r.imageOutcomes) : ~r.imageOutcomes[n]) =>
      /\ r.thrownAt = 2
      /\ r.pc \in {"w_failed", "e_failed", "failed"}
      /\ \A n \in 1..Len(r.log) : r.log[n].op = "invoke" => r.log[n].stage <= 2

\* C28: the k-th stage function a run calls gets, besides what was loaded
\* at run start, only values earlier stages of that run returned: the
\* topic is the one loaded, the brief given to the image and writing
\* stages is the research stage's, the images given to the writing stage
\* are the image stage's, the article given to the meta and thumbnail
\* stages is the writing stage's. The loaded topic is read when the load
\* resolves and never again, and no step changes an input already passed.
C28_InputsOfOwnRun ==
  \A i \in RunIds :
    LET r == runs[i] IN
    /\ Len(r.inputs) = Len(Entries(r, "invoke"))
    /\ \A k \in 1..Len(r.inputs) :
         r.inputs[k] =
           CASE k = 1 -> [NoInputs EXCEPT !.topic = r.topic]
             [] k = 2 -> [NoInputs EXCEPT !.researchBrief = i]
             [] k = 3 -> [NoInputs EXCEPT !.researchBrief = i, !.images = r.images]
             [] OTHER -> [NoInputs EXCEPT !.articleContent = i]

C28_RowReadOnce ==
  \A i \in RunIds :
    i \in DOMAIN runs' =>
      /\ runs'[i].topic =
           IF runs[i].pc = "load" /\ runs'[i].pc = "w_status"
             THEN store[runs[i].jobId].topic
             ELSE runs[i].topic
      /\ SubSeq(runs'[i].inputs, 1, Len(runs[i].inputs)) = runs[i].inputs
      /\ runs[i].images # <<>> => runs'[i].images = runs[i].images

C28_StageInputs == []C28_InputsOfOwnRun /\ [][C28_RowReadOnce]_vars

\* The job's topic was edited during a run that went through all five
\* stages: the research stage was given the topic loaded at run start.
C28_Witness ==
  \E i \in RunIds :
    /\ runs[i].pc = "completed"
    /\ Len(runs[i].inputs) = NumStages
    /\ store[runs[i].jobId].exists
    /\ store[runs[i].jobId].topic # runs[i].inputs[1].topic

\* C29: between any two steps of the program the busy flag is true exactly
\* when a pipeline run is in flight, and the buffer holds ids only while
\* the busy flag is true.
C29_BusyIffRunInFlight ==
  /\ processing <=> \E i \in RunIds : InFlight(runs[i])
  /\ ~processing => queue = <<>>

\* The drain loop has started a buffered id after an earlier run settled,
\* and another id is waiting in the buffer behind the run in flight.
C29_Witness ==
  /\ processing
  /\ queue # <<>>
  /\ \E i \in RunIds : Settled(runs[i])
  /\ InFlight(runs[Len(runs)])
  /\ runs[Len(runs)].via = "drain"

\* C30: a run that rejects while loading (no row with its id, or the
\* brand's imageDefaults does not parse) has written nothing to the Job
\* Store and published nothing; the step leaves the table, and so the
\* job's status and errorMessage, as they were, and in the same step the
\* queue starts the next buffered id or, with none, resets the busy flag.
C30_RejectedAtLoad(i) ==
  /\ i \in RunIds
  /\ runs[i].pc = "load"
  /\ runs'[i].pc = "rejected"

C30_Step ==
  \A i \in RunIds :
    C30_RejectedAtLoad(i) =>
      /\ store' = store
      /\ published' = published
      /\ runs'[i].log = <<>>
      /\ runs'[i].stamps = <<>>
      /\ runs'[i].inputs = <<>>
      /\ uncaught' = uncaught
      /\ IF queue = <<>>
           THEN ~processing' /\ runs' = [runs EXCEPT ![i].pc = "rejected"]
           ELSE /\ processing'
                /\ queue' = Tail(queue)
                /\ Len(runs') = Len(runs) + 1
                /\ runs'[Len(runs')] = NewRun(Head(queue), "drain")

C30_NoTraceOfRejectedLoad ==
  \A i \in RunIds :
    runs[i].stage = 0 =>
      /\ runs[i].pc \in {"load", "rejected"}
      /\ runs[i].log = <<>>
      /\ runs[i].stamps = <<>>
      /\ i \notin uncaught

C30_LoadRejection == []C30_NoTraceOfRejectedLoad /\ [][C30_Step]_vars

\* The brand's imageDefaults did not parse: the run rejected before its
\* first stage, the job's row is still idle with no errorMessage, and the
\* queue has started the next id.
C30_Witness ==
  \E i \in RunIds :
    /\ runs[i].pc = "rejected"
    /\ runs[i].stage = 0
    /\ store[runs[i].jobId].exists
    /\ store[runs[i].jobId].status = "idle"
    /\ store[runs[i].jobId].errorMessage = Null
    /\ i < Len(runs)
    /\ runs[i + 1].via = "drain"

\* C31: a run publishes at most one terminal event (completed or failed),
\* and the terminal event is the last event it publishes.
C31_TerminalEmits(r) ==
  {n \in 1..Len(r.log) : r.log[n].op = "emit" /\ r.log[n].status \in {"completed", "failed"}}

C31_OneTerminalEvent ==
  \A i \in RunIds :
    LET r == runs[i] IN
    /\ Cardinality(C31_TerminalEmits(r)) <= 1
    /\ \A n \in C31_TerminalEmits(r) :
         \A m \in (n + 1)..Len(r.log) : r.log[m].op # "emit"

\* C32: when a run publishes a stage's start or complete event, or the
\* completed event, and a subscribed callback throws, the run enters its
\* catch block with the callback's exception and calls no stage function
\* in that step; from then on it invokes no stage, its failure update
\* stores status failed with the exception's message, and when the run
\* has settled the job's row holds that status and message.
C32_ThrowingSubscriber(j) ==
  \E n \in 1..Len(listeners[j]) : streams[listeners[j][n]].controller # "open"

C32_Step ==
  \A i \in RunIds :
    (/\ runs[i].pc \in {"e_start", "e_done", "e_completed"}
     /\ runs'[i] # runs[i]
     /\ C32_ThrowingSubscriber(runs[i].jobId)) =>
      /\ runs'[i].pc = "w_failed"
      /\ runs'[i].caught = ControllerClosed
      /\ runs'[i].err = ControllerClosed.message
      /\ Entries(runs'[i], "invoke") = Entries(runs[i], "invoke")

C32_HandledLikeStageFailure ==
  \A i \in RunIds :
    LET r == runs[i]
        written == Entries(r, "setStatus")
    IN r.caught = ControllerClosed =>
         /\ r.pc \in {"w_failed", "e_failed", "failed", "rejected"}
         /\ r.thrownAt = 0
         /\ r.log[Len(r.log)].op # "invoke"
         /\ r.pc # "w_failed" =>
              /\ written[Len(written)].status = "failed"
              /\ written[Len(written)].message = ControllerClosed.message
         /\ Settled(r) =>
              /\ store[r.jobId].status = "failed"
              /\ store[r.jobId].errorMessage = ControllerClosed.message

C32_SubscriberThrowFailsRun ==
  []C32_HandledLikeStageFailure /\ [][C32_Step]_vars

\* The callback of a cancelled stream threw on the start event of the
\* writing stage: the run has settled, the row is failed with the
\* callback's message, and the writing stage was not invoked.
C32_Witness ==
  \E i \in RunIds :
    /\ runs[i].caught = ControllerClosed
    /\ Settled(runs[i])
    /\ runs[i].stage = 3
    /\ Len(Entries(runs[i], "invoke")) = 2
    /\ store[runs[i].jobId].status = "failed"

\* C33: when the store refuses a run's failure update, the run rejects in
\* that step without publishing anything; the queue's handler catches the
\* rejection and, in the same step, the queue starts the next buffered id
\* or, with none, resets the busy flag. Such a run never publishes a
\* failed event.
C33_Step ==
  \A i \in RunIds :
    (runs[i].pc = "w_failed" /\ ~CanUpdate(store, runs[i].jobId) /\ runs'[i] # runs[i]) =>
      /\ runs'[i] = [runs[i] EXCEPT !.pc = "rejected"]
      /\ published' = published
      /\ store' = store
      /\ uncaught' = uncaught
      /\ IF queue = <<>>
           THEN ~processing' /\ Len(runs') = Len(runs)
           ELSE /\ processing'
                /\ queue' = Tail(queue)
                /\ runs' = Append([runs EXCEPT ![i].pc = "rejected"],
                                  NewRun(Head(queue), "drain"))

C33_RefusedFailureUpdate(r) ==
  /\ r.pc = "rejected"
  /\ r.caught # NoException
  /\ \A n \in 1..Len(r.log) : ~(r.log[n].op = "setStatus" /\ r.log[n].status = "failed")

C33_NoFailedEvent ==
  \A i \in RunIds :
    C33_RefusedFailureUpdate(runs[i]) =>
      /\ \A n \in 1..Len(runs[i].log) :
           ~(runs[i].log[n].op = "emit" /\ runs[i].log[n].status = "failed")
      /\ \A n \in 1..Len(published) :
           (published[n].jobId = runs[i].jobId /\ published[n].status = "failed") =>
             \A m \in 1..Len(runs[i].stamps) : runs[i].stamps[m] # published[n].timestamp
      /\ i \notin uncaught

C33_FailureUpdateFails == []C33_NoFailedEvent /\ [][C33_Step]_vars

\* The job was deleted during a run whose stage then threw: the failure
\* update was refused, the run rejected without a failed event, and the
\* queue started the next id.
C33_Witness ==
  \E i \in RunIds :
    /\ C33_RefusedFailureUpdate(runs[i])
    /\ runs[i].thrownAt > 0
    /\ ~store[runs[i].jobId].exists
    /\ i < Len(runs)
    /\ runs[i + 1].via = "drain"

\* C34: from the moment the function of stage k throws in a run, and until
\* a later run of the same job starts writing, the job's row (while it
\* exists) holds in the output columns of the stages before k the values
\* this run stored, and in the columns of stage k and of the later stages
\* what it held before the run: the value stored by the latest earlier
\* run of that job that wrote the column, or nothing.
C34_Wrote(i, m) ==
  \E n \in 1..Len(runs[i].log) :
    runs[i].log[n].op = "setOutput" /\ runs[i].log[n].stage = m

C34_Before(i, m) ==
  LET earlier == {h \in 1..(i - 1) : runs[h].jobId = runs[i].jobId /\ C34_Wrote(h, m)}
  IN IF earlier = {} THEN NoValue
     ELSE CHOOSE h \in earlier : \A g \in earlier : g <= h

C34_Latest(i) ==
  \A h \in (i + 1)..Len(runs) : runs[h].jobId = runs[i].jobId => runs[h].log = <<>>

C34_FailedRunKeepsLaterOutputs ==
  \A i \in RunIds :
    LET r == runs[i] IN
    (r.thrownAt > 0 /\ C34_Latest(i) /\ store[r.jobId].exists) =>
      \A m \in 1..NumStages :
        store[r.jobId][OutputField[m]] =
          IF m < r.thrownAt THEN i ELSE C34_Before(i, m)

\* A first run of the job stored all five outputs; a second run of the
\* same job failed in its writing stage: brief and images are the second
\* run's, article, meta and thumbnail still the first run's.
C34_Witness ==
  \E i \in RunIds :
    /\ runs[i].pc = "failed"
    /\ runs[i].thrownAt = 3
    /\ C34_Before(i, 3) # NoValue
    /\ store[runs[i].jobId].exists
    /\ store[runs[i].jobId].researchBrief = i
    /\ store[runs[i].jobId].articleContent = C34_Before(i, 3)

\* C35: every step that publishes a completed or failed event for a job
\* finds the job's row with the status the event carries.
C35_Step ==
  \A n \in (Len(published) + 1)..Len(published') :
    Terminal(published'[n]) =>
      /\ store[published'[n].jobId].exists
      /\ store[published'[n].jobId].status = published'[n].status

C35_EventStatusIsStoredStatus == [][C35_Step]_vars

\* C36: on no progress stream is controller.close() or controller.enqueue()
\* ever called after the controller was closed: the controller is closed
\* once, by the terminal event's delivery or by the client's abort, and
\* the other of the two then finds nothing left to do.
C36_ClosedOnce == \A s \in StreamIds : ~streams[s].threw

\* C37: a generate request is answered 404, with the table and the queue
\* untouched, when there is no row with its id. Otherwise its reset update
\* sets status to idle and errorMessage to null and changes nothing else,
\* and enqueues nothing; only after that update does the request call
\* enqueueJob, once, with its id, and answer success. A request whose
\* reset update is refused (the row was deleted meanwhile) answers 500 and
\* enqueues nothing.
C37_Answered == {r \in served' \ served : r.kind = "generate"}

C37_QueueUntouched ==
  /\ enqueued' = enqueued
  /\ queue' = queue
  /\ runs' = runs

C37_Step ==
  /\ \A r \in C37_Answered :
       IF r.resp = 200
         THEN /\ \E q \in ReqIds :
                   /\ reqs[q] = Request("generate", r.job, <<>>, "enqueue", 0)
                   /\ reqs' = Remove(reqs, q)
              /\ r.ids = <<r.job>>
              /\ enqueued' = Append(enqueued, r.job)
              /\ store' = store
         ELSE /\ r.ids = <<>>
              /\ r.resp \in {404, 500}
              /\ ~store[r.job].exists
              /\ store' = store
              /\ C37_QueueUntouched
  /\ \A q \in ReqIds :
       (/\ reqs[q].kind = "generate"
        /\ reqs[q].pc = "reset"
        /\ reqs' = [reqs EXCEPT ![q].pc = "enqueue"]) =>
         /\ store[reqs[q].job].exists
         /\ store' = [store EXCEPT ![reqs[q].job].status = "idle",
                                   ![reqs[q].job].errorMessage = Null]
         /\ C37_QueueUntouched
  /\ (Len(reqs') > Len(reqs) /\ reqs'[Len(reqs')].kind = "generate") =>
       /\ reqs'[Len(reqs')].pc = "reset"
       /\ store[reqs'[Len(reqs')].job].exists
       /\ store' = store
       /\ C37_QueueUntouched

C37_GenerateRoute == [][C37_Step]_vars

\* A generate request for job 2 has been answered with success: the id
\* was enqueued once and its run started from the reset row.
C37_Witness ==
  /\ Request("generate", 2, <<2>>, "done", 200) \in served
  /\ enqueued = <<2>>
  /\ Len(runs) = 1
  /\ runs[1].jobId = 2
  /\ runs[1].pc = "load"
  /\ store[2].status = "idle"
  /\ store[2].errorMessage = Null

\* C38: the ids a batch-generate request has read are exactly the jobs
\* whose row was idle when the query was served, each once, in creation
\* order; the request then passes those ids to enqueueJob in that order
\* in one step, whatever the buffer holds and whatever is running, and
\* answers success. Every enqueued id is run or still buffered, once per
\* enqueue.
C38_Step ==
  /\ (Len(reqs') > Len(reqs) /\ reqs'[Len(reqs')].kind = "batch") =>
       LET ids == reqs'[Len(reqs')].ids IN
       /\ {ids[n] : n \in 1..Len(ids)} =
            {j \in Jobs : store[j].exists /\ store[j].status = "idle"}
       /\ \A a, b \in 1..Len(ids) : a < b => ids[a] < ids[b]
       /\ enqueued' = enqueued
       /\ store' = store
  /\ \A q \in ReqIds :
       (reqs[q].kind = "batch" /\ reqs' = Remove(reqs, q)) =>
         /\ enqueued' = enqueued \o reqs[q].ids
         /\ Len(runs') + Len(queue') = Len(runs) + Len(queue) + Len(reqs[q].ids)
         /\ store' = store
         /\ [reqs[q] EXCEPT !.pc = "done", !.resp = 200] \in served'

C38_OncePerEnqueue ==
  /\ [n \in 1..Len(runs) |-> runs[n].jobId] \o queue = enqueued
  /\ \A r \in served : r.kind = "batch" => r.resp = 200

C38_BatchGenerate == []C38_OncePerEnqueue /\ [][C38_Step]_vars

\* Job 2 was buffered, still idle, when a second batch-generate call read
\* the idle jobs: it was enqueued again, and has been run twice.
C38_Witness ==
  /\ enqueued = <<1, 2, 2>>
  /\ Request("batch", 0, <<1, 2>>, "done", 200) \in served
  /\ Request("batch", 0, <<2>>, "done", 200) \in served
  /\ Len(runs) = 3
  /\ runs[2].jobId = 2
  /\ runs[3].jobId = 2
  /\ Settled(runs[2])

\* C39: the agent loop makes at most ten model calls. While it runs,
\* every response so far carried function calls; it returns at the first
\* response with content and no function call, with that response's text;
\* it throws on a response without content, on a call of a tool that is
\* not declared, when the tenth response still carries function calls, or
\* when a call throws, and then the research stage has failed: the run is
\* in its catch block with the loop's error and no later stage is invoked.
\* With every model call and tool call answered, a started loop ends.
C39_Errors ==
  {"No content in Gemini response", "Unknown tool called",
   "Exceeded maximum iterations", "stage error"}

C39_AgentBounded ==
  /\ agent.modelCalls <= MAX_ITERATIONS
  /\ agent.pc = "model" => agent.withCalls = agent.modelCalls - 1 /\ agent.i = agent.withCalls
  /\ agent.pc = "tool" =>
       /\ agent.withCalls = agent.modelCalls
       /\ agent.pending # <<>>
       /\ Head(agent.pending) \in ToolNames
  /\ agent.pc = "returned" =>
       /\ agent.text \in {"json", "prose"}
       /\ agent.withCalls = agent.modelCalls - 1
       /\ agent.text = "json" => runs[agent.run].thrownAt # 1
       /\ agent.text = "prose" => runs[agent.run].thrownAt = 1
  /\ agent.pc = "thrown" =>
       /\ agent.error \in C39_Errors
       /\ agent.error = "Exceeded maximum iterations" =>
            /\ agent.modelCalls = MAX_ITERATIONS
            /\ agent.withCalls = MAX_ITERATIONS
            /\ agent.pending = <<>>
       /\ agent.error = "Unknown tool called" =>
            agent.pending # <<>> /\ Head(agent.pending) \notin ToolNames
       /\ agent.error = "No content in Gemini response" =>
            agent.withCalls = agent.modelCalls - 1
       /\ runs[agent.run].thrownAt = 1
       /\ runs[agent.run].caught = [isError |-> TRUE, message |-> agent.error]
       /\ runs[agent.run].pc \in {"w_failed", "e_failed", "failed"}
       /\ \A n \in 1..Len(runs[agent.run].log) :
            runs[agent.run].log[n].op = "invoke" => runs[agent.run].log[n].stage = 1

C39_Terminates ==
  (agent.pc \in {"model", "tool"}) ~> (agent.pc \in {"returned", "thrown"})

C39_AgentLoop == []C39_AgentBounded /\ C39_Terminates

\* Ten responses in a row carried function calls: the loop threw after
\* its tenth model call and the run has settled as failed.
C39_Witness ==
  /\ agent.pc = "thrown"
  /\ agent.error = "Exceeded maximum iterations"
  /\ agent.modelCalls = MAX_ITERATIONS
  /\ agent.toolCalls > MAX_ITERATIONS
  /\ runs[agent.run].pc = "failed"

====
